---- MODULE Spec2Model ----
(***************************************************************************)
(* Uptime monitor (src/main.rs): a background loop probes every registered *)
(* website and appends one row per probe to the logs table; the query      *)
(* handlers aggregate those rows into hourly / daily uptime series, pad    *)
(* them with "no data" entries and list the failing checks.                *)
(*                                                                         *)
(* Time is a count of seconds since the Unix epoch (UTC, also the store's  *)
(* session time zone).  Option<T> and a nullable SQL column are sets with  *)
(* at most one element: {} is None/NULL.                                   *)
(*                                                                         *)
(* The schema (migrations) is not part of the sources.  The tables have    *)
(* the columns the statements of main.rs name; defaults and constraints    *)
(* are those of the specification's schema: websites.alias is unique,      *)
(* created_at is the time of the insert, and the alias column of logs      *)
(* carries the reference to websites and the per-minute uniqueness key.    *)
(*                                                                         *)
(* Spec is the write path: the handlers that change the store, the         *)
(* background task and the clock.  SpecStats is the read path: one request *)
(* of a read handler served against a store drawn from a family of         *)
(* histories long enough to fill more than 24 hourly or 30 daily buckets.  *)
(***************************************************************************)
EXTENDS Integers, Sequences, FiniteSets, TLC

VARIABLES websites,   \* table websites: set of rows [id, url, alias]
          next_id,    \* the serial of websites.id
          logs,       \* table logs: sequence of rows, in insertion order
          now,        \* the wall clock (Utc::now(), the store's now())
          sched_pc,   \* position of the task running check_websites
          next_tick,  \* deadline of the next tick of the 60 s interval
          res,        \* rows of the stream `res` not yet yielded
          website,    \* the row bound by `while let Some(website)`
          response,   \* status of the probe's response
          panic,      \* the unwrap that ended the task, "" while it runs
          resp        \* what the last HTTP handler returned

vars == <<websites, next_id, logs, now, sched_pc, next_tick, res, website,
          response, panic, resp>>

storeVars == <<websites, next_id, logs>>
schedVars == <<sched_pc, next_tick, res, website, response, panic>>

----------------------------------------------------------------------------
(* Bounds of the model *)

MaxBuckets == 31     \* most buckets of history a drawn store holds
MaxLogs == 2         \* most rows the scheduler appends in one behaviour
MaxSteps == 2        \* most clock steps in one behaviour
MaxCreated == 1      \* most websites rows ever inserted

(* Program constants *)

number_of_splits_daily == 24
number_of_seconds_daily == 3600
number_of_splits_monthly == 30
number_of_seconds_monthly == 86400
LimitDaily == 24
LimitMonthly == 30
LoopEnd == 24
Period == 60
StatusOk == 200

(* Input alphabets *)

Epoch == 100 * 86400                  \* 1970-04-11T00:00:00Z, a midnight
ClockStep == Period \div 2             \* the clock is observed every 30 s
Aliases == {"a", "b"}
Urls == {"https://a.example", "not-a-url"}
ValidUrls == {"https://a.example"}
Statuses == {200, 500}

None == {}
Some(x) == {x}

----------------------------------------------------------------------------
(* chrono field setters and Postgres date_trunc, on seconds since epoch *)

with_second0(t) == t - (t % 60)
with_minute0(t) == t - (((t % 3600) \div 60) * 60)
with_hour0(t) == t - (((t % 86400) \div 3600) * 3600)

date_trunc(unit, t) ==
    IF unit = "hour" THEN t - (t % 3600)
    ELSE IF unit = "day" THEN t - (t % 86400)
    ELSE t - (t % 60)

----------------------------------------------------------------------------
(* Sequences *)

Range(s) == {s[i] : i \in DOMAIN s}

Limit(s, n) == IF Len(s) <= n THEN s ELSE SubSeq(s, 1, n)

\* ORDER BY ... ASC of a set of distinct keys
OrderAsc(S) ==
    LET rank == [t \in S |-> Cardinality({u \in S : u < t})]
    IN  [r \in 1..Cardinality(S) |-> CHOOSE t \in S : rank[t] = r - 1]

\* data.sort_by(|a, b| b.time.cmp(&a.time)): stable, descending by time
SortDesc(data) ==
    LET n == Len(data)
        rank == [i \in 1..n |->
                   Cardinality({j \in 1..n : data[j].time > data[i].time})
                 + Cardinality({j \in 1..(i - 1) : data[j].time = data[i].time})
                 + 1]
    IN  [r \in 1..n |-> data[CHOOSE i \in 1..n : rank[i] = r]]

\* every ordering of a set of rows: a query without ORDER BY
Orderings(S) ==
    LET n == Cardinality(S)
    IN  {f \in [1..n -> S] : \A i, j \in 1..n : i # j => f[i] # f[j]}

----------------------------------------------------------------------------
(* The aggregating queries of get_daily_stats / get_monthly_stats *)

\* logs LEFT JOIN websites ON websites.id = logs.website_id
\* WHERE websites.alias = $1
JoinedLogs(alias) ==
    SelectSeq(logs, LAMBDA l :
        \E w \in websites : w.alias = alias /\ l.website_id = Some(w.id))

\* the percentage rounded to nearest instead of truncated
UptimePctRounded(rows) ==
    (Cardinality({i \in DOMAIN rows : rows[i].status = StatusOk}) * 100
        + (Len(rows) \div 2)) \div Len(rows)

\* COUNT(case when status = 200 then 1 end) * 100 / COUNT(*), bigint division
UptimePct(rows) ==
    (Cardinality({i \in DOMAIN rows : rows[i].status = StatusOk}) * 100)
        \div Len(rows)

\* SELECT date_trunc(unit, created_at) as time, ... as uptime_pct
\* ... group by time order by time asc limit n
StatsQuery(alias, unit, n) ==
    LET rows == JoinedLogs(alias)
        times == {date_trunc(unit, rows[i].created_at) : i \in DOMAIN rows}
        ordered == OrderAsc(times)
        group(t) == SelectSeq(rows, LAMBDA l : date_trunc(unit, l.created_at) = t)
        all == [r \in DOMAIN ordered |->
                  [time |-> ordered[r],
                   uptime_pct |-> Some(UptimePct(group(ordered[r])))]]
    IN  Limit(all, n)

----------------------------------------------------------------------------
(* fill_data_gaps.  utc_now[i] is what Utc::now() returns in iteration i. *)

\* the loop without the test for a bucket already present
RECURSIVE fill_loop_push(_, _, _, _, _)
fill_loop_push(data, i, format, number_of_seconds, utc_now) ==
    IF i >= LoopEnd THEN data
    ELSE
      LET t0 == utc_now[i] - (number_of_seconds * i)
          t1 == with_second0(with_minute0(t0))
          time == IF format = "Day" THEN with_hour0(t1) ELSE t1
      IN  fill_loop_push(Append(data, [time |-> time, uptime_pct |-> None]),
                         i + 1, format, number_of_seconds, utc_now)

RECURSIVE fill_loop(_, _, _, _, _)
fill_loop(data, i, format, number_of_seconds, utc_now) ==
    IF i >= LoopEnd THEN data
    ELSE
      LET t0 == utc_now[i] - (number_of_seconds * i)
          t1 == with_second0(with_minute0(t0))
          time == IF format = "Day" THEN with_hour0(t1) ELSE t1
          pushed == IF \A k \in DOMAIN data : data[k].time # time
                    THEN Append(data, [time |-> time, uptime_pct |-> None])
                    ELSE data
      IN  fill_loop(pushed, i + 1, format, number_of_seconds, utc_now)

\* gap filling that writes 0 where it has no data
fill_data_gaps_zero(data, splits, format, number_of_seconds, utc_now) ==
    IF Len(data) < splits
    THEN LET filled == SortDesc(fill_loop(data, 1, format, number_of_seconds,
                                          utc_now))
         IN  [k \in DOMAIN filled |->
                IF filled[k].uptime_pct = None
                THEN [filled[k] EXCEPT !.uptime_pct = Some(0)]
                ELSE filled[k]]
    ELSE data

fill_data_gaps(data, splits, format, number_of_seconds, utc_now) ==
    IF Len(data) < splits
    THEN SortDesc(fill_loop(data, 1, format, number_of_seconds, utc_now))
    ELSE data

get_daily_stats(alias, utc_now) ==
    fill_data_gaps(StatsQuery(alias, "hour", LimitDaily),
                   number_of_splits_daily, "Hour", number_of_seconds_daily,
                   utc_now)

get_monthly_stats(alias, utc_now) ==
    fill_data_gaps(StatsQuery(alias, "day", LimitMonthly),
                   number_of_splits_monthly, "Day", number_of_seconds_monthly,
                   utc_now)

\* SELECT logs.created_at as time, logs.status ... and logs.status != 200
IncidentRows(alias) ==
    LET rows == JoinedLogs(alias)
    IN  {[idx |-> i, time |-> rows[i].created_at, status |-> rows[i].status] :
            i \in {k \in DOMAIN rows : rows[k].status # StatusOk}}

----------------------------------------------------------------------------
(* The read handlers.  A handler is one step; the clock may tick once while *)
(* it runs.  Iterations of the gap-filling loop are numbered through the    *)
(* whole handler, 23 per call of fill_data_gaps, and `jump` is the last     *)
(* iteration that still reads the old second.  A tick changes the result    *)
(* only when it starts a new hour, so only then is it drawn.                *)

Iterations == LoopEnd - 1

\* iterations at which a tick is drawn: before the first, inside a call
JumpAt == {0, 12}

JumpPoints(calls) ==
    IF (now + 1) % 3600 = 0
    THEN {c * Iterations + k : c \in 0..(calls - 1), k \in JumpAt}
            \cup {calls * Iterations}
    ELSE {calls * Iterations}

UtcNow(call, jump) ==
    [i \in 1..Iterations |->
        IF (call - 1) * Iterations + i > jump THEN now + 1 ELSE now]

ClockAfter(calls, jump) == IF jump < calls * Iterations THEN now + 1 ELSE now

NoResp ==
    [op |-> "none", status |-> "none", alias |-> "", at |-> 0,
     logs |-> <<>>, incidents |-> <<>>, monthly_data |-> <<>>]

ErrResp(op, alias) ==
    [NoResp EXCEPT !.op = op, !.status = "err", !.alias = alias]

\* GET /
get_websites ==
    \/ \E rows \in Orderings(websites), jump \in JumpPoints(Cardinality(websites)) :
          /\ resp' = [NoResp EXCEPT
                         !.op = "get_websites", !.status = "ok", !.at = now,
                         !.logs = [i \in DOMAIN rows |->
                                     [url |-> rows[i].url,
                                      alias |-> rows[i].alias,
                                      data |-> get_daily_stats(rows[i].alias,
                                                               UtcNow(i, jump))]]]
          /\ now' = ClockAfter(Cardinality(websites), jump)
          /\ UNCHANGED <<storeVars, schedVars>>
    \/ \* a query failed: `?` returns ApiError::SQLError
       /\ resp' = ErrResp("get_websites", "")
       /\ UNCHANGED <<storeVars, schedVars, now>>

\* GET /websites/:alias
get_website_by_alias(alias) ==
    \/ /\ \E w \in websites : w.alias = alias
       /\ \E jump \in JumpPoints(2) :
            LET w == CHOOSE x \in websites : x.alias = alias
                last_24_hours_data == get_daily_stats(w.alias, UtcNow(1, jump))
                monthly_data == get_monthly_stats(w.alias, UtcNow(2, jump))
            IN  /\ \E incidents \in Orderings(IncidentRows(alias)) :
                      resp' = [NoResp EXCEPT
                                 !.op = "get_website_by_alias", !.status = "ok",
                                 !.alias = alias, !.at = now,
                                 !.logs = <<[url |-> w.url, alias |-> alias,
                                             data |-> last_24_hours_data]>>,
                                 !.incidents = [i \in DOMAIN incidents |->
                                                  [time |-> incidents[i].time,
                                                   status |-> incidents[i].status]],
                                 !.monthly_data = monthly_data]
                /\ now' = ClockAfter(2, jump)
       /\ UNCHANGED <<storeVars, schedVars>>
    \/ \* fetch_one found no row, or a query failed
       /\ resp' = ErrResp("get_website_by_alias", alias)
       /\ UNCHANGED <<storeVars, schedVars, now>>

----------------------------------------------------------------------------
(* The write handlers *)

OkResp(op, alias) ==
    [NoResp EXCEPT !.op = op, !.status = "ok", !.alias = alias]

PanicResp(op, alias) ==
    [NoResp EXCEPT !.op = op, !.status = "panic", !.alias = alias]

\* #[validate(url)]
validate(url) == url \in ValidUrls

\* websites.alias is UNIQUE
AliasTaken(alias) == \E w \in websites : w.alias = alias

\* POST /websites
create_website(url, alias) ==
    IF ~validate(url)
    THEN /\ resp' = ErrResp("create_website", alias)
         /\ UNCHANGED <<storeVars, schedVars, now>>
    ELSE \/ /\ ~AliasTaken(alias)
            /\ next_id <= MaxCreated
            /\ websites' = websites \cup
                              {[id |-> next_id, url |-> url, alias |-> alias]}
            /\ next_id' = next_id + 1
            /\ resp' = OkResp("create_website", alias)
            /\ UNCHANGED <<logs, schedVars, now>>
         \/ \* the INSERT failed (alias taken, or the store): unwrap() panics
            /\ resp' = PanicResp("create_website", alias)
            /\ UNCHANGED <<storeVars, schedVars, now>>

\* DELETE /websites/:alias, the committed transaction
DeleteCommitted(alias) ==
    /\ logs' = SelectSeq(logs, LAMBDA l : l.website_alias # Some(alias))
    /\ websites' = {w \in websites : w.alias # alias}

delete_website(alias) ==
    \/ /\ DeleteCommitted(alias)
       /\ resp' = OkResp("delete_website", alias)
       /\ UNCHANGED <<next_id, schedVars, now>>
    \/ \* begin, a DELETE or the commit failed: nothing is applied
       /\ resp' = ErrResp("delete_website", alias)
       /\ UNCHANGED <<storeVars, schedVars, now>>

----------------------------------------------------------------------------
(* check_websites, the background task *)

\* a task that keeps the registry it read when it started (then empty)
TickStartupRegistry ==
    /\ sched_pc = "tick"
    /\ now >= next_tick
    /\ next_tick' = next_tick + Period
    /\ res' = {}
    /\ sched_pc' = "next"
    /\ UNCHANGED <<storeVars, now, website, response, panic, resp>>

\* interval.tick().await, then the SELECT behind the stream `res`
Tick ==
    /\ sched_pc = "tick"
    /\ now >= next_tick
    /\ next_tick' = next_tick + Period
    /\ res' = websites
    /\ sched_pc' = "next"
    /\ UNCHANGED <<storeVars, now, website, response, panic, resp>>

\* res.next().await and website.unwrap()
NextWebsite ==
    /\ sched_pc = "next"
    /\ \/ /\ res = {}
          /\ sched_pc' = "tick"
          /\ UNCHANGED <<res, website, panic>>
       \/ \E w \in res :
             /\ res' = res \ {w}
             /\ website' = Some(w)
             /\ sched_pc' = "send"
             /\ UNCHANGED panic
       \/ \* the stream yields Err
          /\ sched_pc' = "panicked"
          /\ panic' = "website.unwrap"
          /\ UNCHANGED <<res, website>>
    /\ UNCHANGED <<storeVars, now, next_tick, response, resp>>

\* ctx.get(website.url).send().await.unwrap()
Send ==
    /\ sched_pc = "send"
    /\ \/ \E status \in Statuses :
             /\ response' = Some(status)
             /\ sched_pc' = "execute"
             /\ UNCHANGED panic
       \/ \* transport failure: send() returns Err
          /\ sched_pc' = "panicked"
          /\ panic' = "send.unwrap"
          /\ UNCHANGED response
    /\ UNCHANGED <<storeVars, now, next_tick, res, website, resp>>

\* a row as the INSERT of check_websites writes it: website_alias is not in
\* its column list and stays NULL
LogRow(id, status, created_at) ==
    [website_id |-> id, website_alias |-> None, status |-> status,
     created_at |-> created_at]

\* (SELECT id FROM websites where alias = $1)
IdOfAlias(alias) == {w.id : w \in {x \in websites : x.alias = alias}}

\* logs.created_at DEFAULT: the time of the insert
created_at_default == now

\* the row of INSERT INTO logs (website_id, status) VALUES (..., $2)
InsertedRow(alias, status) ==
    LogRow(IdOfAlias(alias), status, created_at_default)

\* UNIQUE (website_alias, minute of created_at); NULLs never conflict
UniqueViolation(row) ==
    /\ row.website_alias # None
    /\ \E i \in DOMAIN logs :
          /\ logs[i].website_alias = row.website_alias
          /\ date_trunc("minute", logs[i].created_at)
                = date_trunc("minute", row.created_at)

\* sqlx::query("INSERT INTO logs ...").execute(&db).await.unwrap()
Execute ==
    /\ sched_pc = "execute"
    /\ LET w == CHOOSE x \in website : TRUE
           status == CHOOSE x \in response : TRUE
           row == InsertedRow(w.alias, status)
       IN  \/ /\ ~UniqueViolation(row)
              /\ Len(logs) < MaxLogs
              /\ logs' = Append(logs, row)
              /\ sched_pc' = "next"
              /\ UNCHANGED panic
           \/ \* the INSERT failed
              /\ sched_pc' = "panicked"
              /\ panic' = "execute.unwrap"
              /\ UNCHANGED logs
    /\ website' = None
    /\ response' = None
    /\ UNCHANGED <<websites, next_id, now, next_tick, res, resp>>

\* time passes
StartTime == Epoch + 7 * 3600 + 30       \* the process starts at 07:00:30

MaxTime == StartTime + MaxSteps * ClockStep

AdvanceClock ==
    /\ now + ClockStep <= MaxTime
    /\ now' = now + ClockStep
    /\ UNCHANGED <<storeVars, schedVars, resp>>

----------------------------------------------------------------------------
(* Stores drawn for the aggregation pipeline: website 1 ("a") was checked  *)
(* in `nb` buckets of `unit` seconds, the newest one `gap` buckets before  *)
(* the current one and every `stride`-th bucket before that; website 2     *)
(* ("b") was checked once, just now.                                       *)

NowSet == {Epoch + 5 * 86400,                     \* midnight exactly
           Epoch + 5 * 86400 + 14 * 3600 + 1830,  \* 14:30:30
           Epoch + 5 * 86400 + 86399}             \* 23:59:59
Units == {3600, 86400}
Shapes == {<<0, 1>>, <<1, 1>>, <<0, 2>>}          \* <<gap, stride>>
NbSet == {0, 1, 2, 3, 12} \cup (23..MaxBuckets)

\* statuses of the checks in the j-th newest bucket, one per minute
Checks(j) ==
    IF j = 0 THEN <<200, 500, 200>>
    ELSE IF j = 1 THEN <<500>>
    ELSE IF j = 2 THEN <<200, 200, 200, 200>>
    ELSE <<200>>

BucketRows(t, unit, gap, stride, j) ==
    LET start == (t - (t % unit)) - ((gap + j * stride) * unit)
        c == Checks(j)
        rows == [k \in DOMAIN c |-> LogRow(Some(1), c[k], start + 60 * (k - 1))]
    IN  SelectSeq(rows, LAMBDA l : l.created_at <= t)

RECURSIVE History(_, _, _, _, _)
History(t, unit, gap, stride, j) ==
    IF j < 0 THEN <<>>
    ELSE BucketRows(t, unit, gap, stride, j)
           \o History(t, unit, gap, stride, j - 1)

DrawnLogs(t, unit, nb, gap, stride) ==
    Append(History(t, unit, gap, stride, nb - 1), LogRow(Some(2), 500, t))

DrawnWebsites ==
    {[id |-> 1, url |-> "https://a.example", alias |-> "a"],
     [id |-> 2, url |-> "https://a.example", alias |-> "b"]}

SchedInit ==
    /\ sched_pc = "tick"
    /\ next_tick = now
    /\ res = {}
    /\ website = None
    /\ response = None
    /\ panic = ""

InitStats ==
    /\ websites = DrawnWebsites
    /\ next_id = 3
    /\ now \in NowSet
    /\ \E unit \in Units, nb \in NbSet, shape \in Shapes :
          logs = DrawnLogs(now, unit, nb, shape[1], shape[2])
    /\ SchedInit
    /\ resp = NoResp

\* one request served against the drawn store
NextStats ==
    \/ resp = NoResp /\ get_websites
    \/ resp = NoResp /\ \E alias \in Aliases \cup {"c"} : get_website_by_alias(alias)

Init ==
    /\ websites = {}
    /\ next_id = 1
    /\ logs = <<>>
    /\ now = StartTime
    /\ SchedInit
    /\ resp = NoResp

Next ==
    \/ \E url \in Urls, alias \in Aliases : create_website(url, alias)
    \/ \E alias \in Aliases : delete_website(alias)
    \/ Tick
    \/ NextWebsite
    \/ Send
    \/ Execute
    \/ AdvanceClock

Spec == Init /\ [][Next]_vars

SpecStats == InitStats /\ [][NextStats]_vars

----------------------------------------------------------------------------
(* What the claims speak about, read off the store and the last response   *)

\* the series of the last response: hourly ones of 24, daily ones of 30
Views ==
    {[alias |-> resp.logs[i].alias, width |-> 3600, n |-> 24,
      data |-> resp.logs[i].data] : i \in DOMAIN resp.logs}
    \cup
    (IF resp.op = "get_website_by_alias" /\ resp.status = "ok"
     THEN {[alias |-> resp.alias, width |-> 86400, n |-> 30,
            data |-> resp.monthly_data]}
     ELSE {})

\* positions in logs of the check results of the target named alias
ChecksOfTarget(alias) ==
    {i \in DOMAIN logs :
        \E w \in websites : w.alias = alias /\ w.id \in logs[i].website_id}

BucketOf(t, width) == (t \div width) * width

\* the buckets in which the target has at least one check result
RealBuckets(alias, width) ==
    {BucketOf(logs[i].created_at, width) : i \in ChecksOfTarget(alias)}

ChecksIn(alias, width, t) ==
    {i \in ChecksOfTarget(alias) : BucketOf(logs[i].created_at, width) = t}

\* C1: a target with fewer than N real buckets is shown a series of
\* exactly N entries, 24 in the hourly view and 30 in the daily view.
C1_SeriesHasExactlyN ==
    \A v \in Views :
        Cardinality(RealBuckets(v.alias, v.width)) < v.n => Len(v.data) = v.n

\* C2: a transport failure of a probe never ends the cycle: the task never
\* stops at the unwrap of send().
C2_TransportFailureDoesNotAbort == panic # "send.unwrap"

\* C3: the store holds at most one check result per target and minute slot,
\* however often the recorder ran in that slot.
C3_OneResultPerSlot ==
    \A i, j \in DOMAIN logs :
        (/\ i # j
         /\ logs[i].website_id # None
         /\ logs[i].website_id = logs[j].website_id)
        => BucketOf(logs[i].created_at, 60) # BucketOf(logs[j].created_at, 60)

\* C4: every series handed out is sorted descending by time.
C4_SortedDescending ==
    \A v \in Views :
        \A k \in 1..(Len(v.data) - 1) : v.data[k].time > v.data[k + 1].time

\* C5: when the checks of a target span more than N buckets, the real
\* buckets of its series are the N most recent ones.
C5_MostRecentBuckets ==
    \A v \in Views :
        LET B == RealBuckets(v.alias, v.width)
        IN  Cardinality(B) > v.n =>
              \A t \in B :
                 (\E k \in DOMAIN v.data : v.data[k].time = t)
                    <=> Cardinality({u \in B : u > t}) < v.n

\* C6: once delete_website(alias) has returned success, the store holds no
\* target with that alias and no check result of the target it named.
C6_DeleteRemovesTargetAndResults ==
    [][\A alias \in Aliases :
          resp' = OkResp("delete_website", alias) =>
             /\ \A w \in websites' : w.alias # alias
             /\ \A i \in DOMAIN logs' :
                   \A w \in websites :
                      w.alias = alias => w.id \notin logs'[i].website_id]_vars

\* the failing check results of a target, as <<time, status>> pairs
FailedChecks(alias) ==
    {i \in ChecksOfTarget(alias) : logs[i].status # 200}

\* C7: the incident list holds each failing check of the target once and
\* no successful one, ascending by time.
C7_IncidentsExactAndAscending ==
    (resp.op = "get_website_by_alias" /\ resp.status = "ok") =>
       /\ Len(resp.incidents) = Cardinality(FailedChecks(resp.alias))
       /\ \A i \in FailedChecks(resp.alias) :
             \E k \in DOMAIN resp.incidents :
                /\ resp.incidents[k].time = logs[i].created_at
                /\ resp.incidents[k].status = logs[i].status
       /\ \A k \in DOMAIN resp.incidents : resp.incidents[k].status # 200
       /\ \A k \in 1..(Len(resp.incidents) - 1) :
             resp.incidents[k].time <= resp.incidents[k + 1].time

\* C8: a numeric uptime_pct is floor(s * 100 / total) of a bucket with
\* total >= 1 checks, s of them with status 200, and lies in 0..100.
C8_UptimePctIsFloor ==
    \A v \in Views :
        \A k \in DOMAIN v.data :
            \A p \in v.data[k].uptime_pct :
                LET in == ChecksIn(v.alias, v.width, v.data[k].time)
                    total == Cardinality(in)
                    s == Cardinality({i \in in : logs[i].status = 200})
                IN  /\ total >= 1
                    /\ p \in 0..100
                    /\ p * total <= s * 100
                    /\ s * 100 < (p + 1) * total

\* a response shows a bucket of 2 of 3 (66), one of 0 and one of 100
C8_Witness ==
    \E v \in Views :
        \A p \in {66, 0, 100} :
            \E k \in DOMAIN v.data : v.data[k].uptime_pct = Some(p)

\* the aggregator result a view was built from
AggregatorResult(v) ==
    StatsQuery(v.alias, IF v.width = 3600 THEN "hour" ELSE "day", v.n)

\* C9: every bucket of the aggregator result is in the final series with
\* its timestamp and percentage, and every other entry carries no data.
C9_RealBucketsKept ==
    \A v \in Views :
        LET agg == Range(AggregatorResult(v))
        IN  /\ agg \subseteq Range(v.data)
            /\ \A e \in Range(v.data) \ agg : e.uptime_pct = None

\* a series that mixes real buckets and synthesized entries
C9_Witness ==
    \E v \in Views :
        /\ \E k \in DOMAIN v.data : v.data[k].uptime_pct = None
        /\ \E k \in DOMAIN v.data : v.data[k].uptime_pct # None

\* C10: the timestamps of one series are pairwise distinct.
C10_DistinctTimestamps ==
    \A v \in Views :
        \A k, m \in DOMAIN v.data :
            k # m => v.data[k].time # v.data[m].time

\* a filled series in which a candidate met a real bucket and was skipped
C10_Witness ==
    \E v \in Views :
        LET real == {k \in DOMAIN v.data : v.data[k].uptime_pct # None}
        IN  /\ Cardinality(real) < Len(v.data)
            /\ Len(v.data) < Cardinality(real) + Iterations

\* C11: the hourly view of a target without any check result has 24
\* entries, all without data, each exactly one hour before the previous one.
C11_EmptyTargetHourlyView ==
    \A v \in Views :
        (v.width = 3600 /\ ChecksOfTarget(v.alias) = {}) =>
            /\ Len(v.data) = 24
            /\ \A k \in DOMAIN v.data : v.data[k].uptime_pct = None
            /\ \A k \in 1..(Len(v.data) - 1) :
                  v.data[k].time - v.data[k + 1].time = 3600

\* C12: registering an alias that already exists is answered with a
\* rejection and leaves the registry as it was; no two targets ever share
\* an alias.
C12_DuplicateAliasRejected ==
    [][/\ \A alias \in Aliases :
            (/\ AliasTaken(alias)
             /\ resp'.op = "create_website"
             /\ resp'.alias = alias
             /\ UNCHANGED <<schedVars, now>>)
            => (resp'.status = "err" /\ websites' = websites)
       /\ \A w1, w2 \in websites' : w1.alias = w2.alias => w1 = w2]_vars

\* C13: an error while the target list is fetched ends only that cycle: the
\* task never stops at the unwrap of a row of the stream.
C13_FetchErrorDoesNotEndTask == panic # "website.unwrap"

\* C14: a failed insert of one check result loses only that result: the
\* task never stops at the unwrap of the INSERT.
C14_InsertErrorDoesNotEndTask == panic # "execute.unwrap"

\* the alias whose check result the task is about to insert is registered
InFlightRegistered == \A w \in website : AliasTaken(w.alias)

\* C15: when the target was deleted while its check was in flight, the
\* insert stores nothing (it is dropped or rejected) and the task goes on.
C15_InsertForDeletedTargetDropped ==
    [][(sched_pc = "execute" /\ sched_pc' # "execute" /\ ~InFlightRegistered)
          => (logs' = logs /\ sched_pc' = "next")]_vars

\* C16: every stored check result references a registered target.
C16_NoOrphanCheckResult ==
    \A i \in DOMAIN logs :
        \E w \in websites : logs[i].website_id = Some(w.id)

\* a step in which a cycle starts
CycleStarts == sched_pc = "tick" /\ sched_pc' = "next"

\* C17: cycles never pile up: when a cycle starts, the next wake lies in
\* the future of the wall clock, however long the previous cycle took.
C17_NextWakeAfterNow == [][CycleStarts => next_tick' > now]_vars

\* C18: every cycle begins at a minute boundary plus the small fixed offset
\* (2 s), whenever the process started.
C18_CycleStartsAtMinuteBoundary == [][CycleStarts => now % 60 <= 2]_vars

C20_DeleteAllOrNothing ==
    [][\A alias \in Aliases :
          (/\ resp'.op = "delete_website"
           /\ resp'.alias = alias
           /\ UNCHANGED <<schedVars, now>>)
          => \/ UNCHANGED <<websites, logs>>
             \/ /\ \A w \in websites' : w.alias # alias
                /\ \A i \in DOMAIN logs' :
                      \A w \in websites :
                         w.alias = alias => logs'[i].website_id # Some(w.id)]_vars

====
